---- MODULE Spec2Model ----
(***************************************************************************)
(* Model of @umituz/react-native-design-system-responsive: the window      *)
(* dimensions read through Dimensions.get('window'), the validation        *)
(* layer (validation.ts), the device detection (deviceDetection.ts), the   *)
(* sizing functions (responsiveSizing.ts) and the layout functions         *)
(* (responsiveLayout.ts).                                                  *)
(*                                                                         *)
(* JavaScript values are records [k, v]: k is the kind ("num", "nan",      *)
(* "inf", "undefined", "null", "str", or a thrown error) and v the         *)
(* payload.  A finite number is held exactly, in hundredths: 375 is        *)
(* [k |-> "num", v |-> 37500] and 0.28 is [k |-> "num", v |-> 28].  Every  *)
(* number the model feeds to the program is a whole number of pixels and   *)
(* every factor of the program has two decimals, so products are exact.    *)
(***************************************************************************)
EXTENDS Integers, FiniteSets, Sequences, TLC

VARIABLES window, pc, call, hook

vars == <<window, pc, call, hook>>

-----------------------------------------------------------------------------
(* JavaScript values *)

N(px) == [k |-> "num", v |-> px * 100]
Frac(hundredths) == [k |-> "num", v |-> hundredths]
NaN == [k |-> "nan", v |-> 0]
Infinity == [k |-> "inf", v |-> 1]
NegInfinity == [k |-> "inf", v |-> -1]
undefined == [k |-> "undefined", v |-> 0]
null == [k |-> "null", v |-> 0]
aString == [k |-> "str", v |-> 0]

\* typeof x === 'number'
IsNumberType(x) == x.k \in {"num", "nan", "inf"}
\* isNaN(x), for x of type number
isNaN(x) == x.k = "nan"
\* isFinite(x), for x of type number
isFinite(x) == x.k = "num"

\* a < b on numbers: every comparison with NaN is false
JsLt(a, b) ==
  IF a.k = "nan" \/ b.k = "nan" THEN FALSE
  ELSE IF a.k = "inf" /\ b.k = "inf" THEN a.v < b.v
  ELSE IF a.k = "inf" THEN a.v < 0
  ELSE IF b.k = "inf" THEN b.v > 0
  ELSE a.v < b.v

JsGt(a, b) == JsLt(b, a)

\* a <= b on numbers
JsLe(a, b) ==
  IF a.k = "nan" \/ b.k = "nan" THEN FALSE
  ELSE ~JsLt(b, a)

JsGe(a, b) == JsLe(b, a)

\* Math.min(a, b) and Math.max(a, b): NaN if either argument is NaN
MathMin(a, b) ==
  IF a.k = "nan" \/ b.k = "nan" THEN NaN
  ELSE IF JsLt(b, a) THEN b ELSE a

MathMax(a, b) ==
  IF a.k = "nan" \/ b.k = "nan" THEN NaN
  ELSE IF JsLt(a, b) THEN b ELSE a

MathMax3(a, b, c) == MathMax(MathMax(a, b), c)

Sign(n) == IF n < 0 THEN -1 ELSE IF n > 0 THEN 1 ELSE 0

\* a * b on numbers
JsMul(a, b) ==
  IF a.k = "nan" \/ b.k = "nan" THEN NaN
  ELSE IF a.k = "inf" \/ b.k = "inf"
    THEN IF Sign(a.v) * Sign(b.v) = 0 THEN NaN
         ELSE [k |-> "inf", v |-> Sign(a.v) * Sign(b.v)]
  ELSE [k |-> "num", v |-> (a.v * b.v) \div 100]

\* a + b on numbers
JsAdd(a, b) ==
  IF a.k = "nan" \/ b.k = "nan" THEN NaN
  ELSE IF a.k = "inf" /\ b.k = "inf"
    THEN IF a.v = b.v THEN a ELSE NaN
  ELSE IF a.k = "inf" THEN a
  ELSE IF b.k = "inf" THEN b
  ELSE [k |-> "num", v |-> a.v + b.v]

\* a default parameter or destructuring default: used when the value is undefined
Default(x, d) == IF x.k = "undefined" THEN d ELSE x

\* a thrown ResponsiveValidationError, by its message
Throw(msg) == [k |-> msg, v |-> 0]
ThrowKinds ==
  {"throw: is required", "throw: must be a valid number",
   "throw: must be a finite number", "throw: must be at least",
   "throw: must be at most", "throw: Safe area insets must be an object"}
IsThrow(x) == x.k \in ThrowKinds

-----------------------------------------------------------------------------
(* config.ts *)

DEVICE_BREAKPOINTS ==
  [SMALL_PHONE |-> N(375), MEDIUM_PHONE |-> N(414), LARGE_PHONE |-> N(428),
   SMALL_TABLET |-> N(768), TABLET |-> N(1024)]

RESPONSIVE_PERCENTAGES ==
  [LOGO_SMALL_PHONE_MAX |-> Frac(28), LOGO_TABLET_MAX |-> Frac(15),
   ICON_CONTAINER_SMALL_PHONE |-> Frac(30), ICON_CONTAINER_TABLET |-> Frac(20),
   CONTENT_SMALL_PHONE |-> Frac(90), CONTENT_PHONE |-> Frac(85),
   CONTENT_TABLET |-> Frac(60),
   INPUT_SMALL_DEVICE |-> Frac(15), INPUT_MEDIUM_DEVICE |-> Frac(18),
   FONT_SMALL_PHONE |-> Frac(90), FONT_TABLET |-> Frac(110)]

SIZE_CONSTRAINTS ==
  [LOGO_MIN_SMALL |-> N(100), LOGO_MAX_SMALL |-> N(120),
   LOGO_MIN_TABLET |-> N(140), LOGO_MAX_TABLET |-> N(200),
   INPUT_MAX_SMALL |-> N(120), INPUT_MAX_MEDIUM |-> N(150),
   INPUT_MAX_LARGE |-> N(200),
   ICON_MAX_SMALL |-> N(120), ICON_MAX_TABLET |-> N(180),
   CONTENT_MAX_TABLET |-> N(600),
   MODAL_MIN_SMALL |-> N(250), MODAL_MIN_STANDARD |-> N(300),
   MODAL_MIN_TABLET |-> N(350), MODAL_MAX_TABLET |-> N(500),
   FONT_MIN_SIZE |-> N(11)]

LAYOUT_CONSTANTS ==
  [SPACING_MULTIPLIER_SMALL |-> Frac(90), SPACING_MULTIPLIER_TABLET |-> Frac(120),
   SPACING_MULTIPLIER_STANDARD |-> Frac(100),
   HORIZONTAL_PADDING_BASE |-> N(16), BOTTOM_POSITION_BASE |-> N(32),
   SAFE_AREA_OFFSET |-> N(16), TAB_BAR_OFFSET |-> N(90),
   FAB_BOTTOM_TABLET |-> N(100), FAB_RIGHT_TABLET |-> N(24),
   FAB_RIGHT_PHONE |-> N(20),
   MODAL_HEIGHT_SMALL |-> "75%", MODAL_HEIGHT_STANDARD |-> "70%",
   MODAL_HEIGHT_TABLET |-> "60%"]

HEIGHT_THRESHOLDS ==
  [SMALL_DEVICE |-> N(667), MEDIUM_DEVICE |-> N(844), LARGE_DEVICE |-> N(1024)]

GRID_CONFIG == [DEFAULT_MOBILE_COLUMNS |-> N(2), DEFAULT_TABLET_COLUMNS |-> N(4)]

VALIDATION_CONSTRAINTS ==
  [MIN_BASE_SIZE |-> N(0), MAX_BASE_SIZE |-> N(10000),
   MIN_BASE_FONT_SIZE |-> N(1), MAX_BASE_FONT_SIZE |-> N(1000),
   MIN_SCREEN_DIMENSION |-> N(100), MAX_SCREEN_DIMENSION |-> N(10000)]

-----------------------------------------------------------------------------
(* validation.ts *)

\* validateNumber without its check against max
validateNumberNoMax(value, minArg, maxArg) ==
  LET min == Default(minArg, VALIDATION_CONSTRAINTS.MIN_BASE_SIZE)
  IN IF value.k = "undefined" \/ value.k = "null"
       THEN Throw("throw: is required")
     ELSE IF ~IsNumberType(value) \/ isNaN(value)
       THEN Throw("throw: must be a valid number")
     ELSE IF ~isFinite(value)
       THEN Throw("throw: must be a finite number")
     ELSE IF JsLt(value, min)
       THEN Throw("throw: must be at least")
     ELSE value

\* validateNumber with the check against max made before the one against min
validateNumberMaxFirst(value, minArg, maxArg) ==
  LET min == Default(minArg, VALIDATION_CONSTRAINTS.MIN_BASE_SIZE)
      max == Default(maxArg, VALIDATION_CONSTRAINTS.MAX_BASE_SIZE)
  IN IF value.k = "undefined" \/ value.k = "null"
       THEN Throw("throw: is required")
     ELSE IF ~IsNumberType(value) \/ isNaN(value)
       THEN Throw("throw: must be a valid number")
     ELSE IF ~isFinite(value)
       THEN Throw("throw: must be a finite number")
     ELSE IF JsGt(value, max)
       THEN Throw("throw: must be at most")
     ELSE IF JsLt(value, min)
       THEN Throw("throw: must be at least")
     ELSE value

\* validateNumber(value, paramName, min, max): the value, or the error thrown
validateNumber(value, minArg, maxArg) ==
  LET min == Default(minArg, VALIDATION_CONSTRAINTS.MIN_BASE_SIZE)
      max == Default(maxArg, VALIDATION_CONSTRAINTS.MAX_BASE_SIZE)
  IN IF value.k = "undefined" \/ value.k = "null"
       THEN Throw("throw: is required")
     ELSE IF ~IsNumberType(value) \/ isNaN(value)
       THEN Throw("throw: must be a valid number")
     ELSE IF ~isFinite(value)
       THEN Throw("throw: must be a finite number")
     ELSE IF JsLt(value, min)
       THEN Throw("throw: must be at least")
     ELSE IF JsGt(value, max)
       THEN Throw("throw: must be at most")
     ELSE value

validateFontSize(fontSize) ==
  validateNumber(fontSize, VALIDATION_CONSTRAINTS.MIN_BASE_FONT_SIZE,
                 VALIDATION_CONSTRAINTS.MAX_BASE_FONT_SIZE)

\* validateScreenDimensions(width, height): undefined (void), or the error thrown
validateScreenDimensions(width, height) ==
  LET w == validateNumber(width, VALIDATION_CONSTRAINTS.MIN_SCREEN_DIMENSION,
                          VALIDATION_CONSTRAINTS.MAX_SCREEN_DIMENSION)
      h == validateNumber(height, VALIDATION_CONSTRAINTS.MIN_SCREEN_DIMENSION,
                          VALIDATION_CONSTRAINTS.MAX_SCREEN_DIMENSION)
  IN IF IsThrow(w) THEN w
     ELSE IF IsThrow(h) THEN h
     ELSE undefined

\* clamp without its lower bound
clampNoMin(value, min, max) == MathMin(value, max)

\* clamp without the upper bound
clampNoMax(value, min, max) == MathMax(value, min)

clamp(value, min, max) == MathMin(MathMax(value, min), max)

safePercentage(value, percentage) ==
  LET validatedValue == validateNumber(value, N(0), Infinity)
      validatedPercentage == clamp(percentage, N(0), N(1))
  IN IF IsThrow(validatedValue) THEN validatedValue
     ELSE JsMul(validatedValue, validatedPercentage)

-----------------------------------------------------------------------------
(* deviceDetection.ts *)

\* getScreenDimensions with each dimension validated and replaced on its own
getScreenDimensionsEachAlone ==
  [width |->
     IF IsThrow(validateNumber(window.width,
                               VALIDATION_CONSTRAINTS.MIN_SCREEN_DIMENSION,
                               VALIDATION_CONSTRAINTS.MAX_SCREEN_DIMENSION))
       THEN N(414) ELSE window.width,
   height |->
     IF IsThrow(validateNumber(window.height,
                               VALIDATION_CONSTRAINTS.MIN_SCREEN_DIMENSION,
                               VALIDATION_CONSTRAINTS.MAX_SCREEN_DIMENSION))
       THEN N(896) ELSE window.height]

\* getScreenDimensions(): the window's dimensions, or the fallback 414 x 896
getScreenDimensions ==
  IF IsThrow(validateScreenDimensions(window.width, window.height))
    THEN [width |-> N(414), height |-> N(896)]
    ELSE [width |-> window.width, height |-> window.height]

\* withDeviceDetectionFallback(operation, fallback, warningMessage): the
\* operation's result, or the fallback when the operation throws
withDeviceDetectionFallback(result, fallback) ==
  IF IsThrow(result) THEN fallback ELSE result

\* a boolean, and a string such as a DeviceType or a percentage
Bool(b) == [k |-> "bool", v |-> IF b THEN 1 ELSE 0]
Str(s) == [k |-> "str", v |-> 0, s |-> s]

DeviceType ==
  [SMALL_PHONE |-> Str("SMALL_PHONE"), MEDIUM_PHONE |-> Str("MEDIUM_PHONE"),
   LARGE_PHONE |-> Str("LARGE_PHONE"), TABLET |-> Str("TABLET")]

isSmallPhone ==
  withDeviceDetectionFallback(
    Bool(JsLe(getScreenDimensions.width, DEVICE_BREAKPOINTS.SMALL_PHONE)),
    Bool(FALSE))

\* isTablet with the TABLET breakpoint in place of SMALL_TABLET
isTabletFrom1024 ==
  withDeviceDetectionFallback(
    Bool(JsGe(getScreenDimensions.width, DEVICE_BREAKPOINTS.TABLET)),
    Bool(FALSE))

isTablet ==
  withDeviceDetectionFallback(
    Bool(JsGe(getScreenDimensions.width, DEVICE_BREAKPOINTS.SMALL_TABLET)),
    Bool(FALSE))

isLandscape ==
  withDeviceDetectionFallback(
    Bool(JsGt(getScreenDimensions.width, getScreenDimensions.height)),
    Bool(FALSE))

\* getDeviceType with < for <= at the breakpoints
getDeviceTypeStrict ==
  LET width == getScreenDimensions.width
  IN withDeviceDetectionFallback(
       IF JsLt(width, DEVICE_BREAKPOINTS.SMALL_PHONE) THEN DeviceType.SMALL_PHONE
       ELSE IF JsLt(width, DEVICE_BREAKPOINTS.MEDIUM_PHONE)
         THEN DeviceType.MEDIUM_PHONE
       ELSE IF JsLt(width, DEVICE_BREAKPOINTS.LARGE_PHONE)
         THEN DeviceType.LARGE_PHONE
       ELSE DeviceType.TABLET,
       DeviceType.MEDIUM_PHONE)

getDeviceType ==
  LET width == getScreenDimensions.width
  IN withDeviceDetectionFallback(
       IF JsLe(width, DEVICE_BREAKPOINTS.SMALL_PHONE) THEN DeviceType.SMALL_PHONE
       ELSE IF JsLe(width, DEVICE_BREAKPOINTS.MEDIUM_PHONE)
         THEN DeviceType.MEDIUM_PHONE
       ELSE IF JsLe(width, DEVICE_BREAKPOINTS.LARGE_PHONE)
         THEN DeviceType.LARGE_PHONE
       ELSE DeviceType.TABLET,
       DeviceType.MEDIUM_PHONE)

getSpacingMultiplier ==
  LET width == getScreenDimensions.width
  IN withDeviceDetectionFallback(
       IF JsLe(width, DEVICE_BREAKPOINTS.SMALL_PHONE)
         THEN LAYOUT_CONSTANTS.SPACING_MULTIPLIER_SMALL
       ELSE IF JsGe(width, DEVICE_BREAKPOINTS.TABLET)
         THEN LAYOUT_CONSTANTS.SPACING_MULTIPLIER_TABLET
       ELSE LAYOUT_CONSTANTS.SPACING_MULTIPLIER_STANDARD,
       LAYOUT_CONSTANTS.SPACING_MULTIPLIER_STANDARD)

-----------------------------------------------------------------------------
(* responsiveSizing.ts *)

getResponsiveLogoSize(baseSizeArg) ==
  LET baseSize == Default(baseSizeArg, N(140))
      validatedBaseSize == validateNumber(baseSize, N(50), N(500))
      width == getScreenDimensions.width
      small == safePercentage(width, RESPONSIVE_PERCENTAGES.LOGO_SMALL_PHONE_MAX)
      tablet == safePercentage(width, RESPONSIVE_PERCENTAGES.LOGO_TABLET_MAX)
  IN IF IsThrow(validatedBaseSize) THEN N(140)
     ELSE IF JsLe(width, DEVICE_BREAKPOINTS.SMALL_PHONE)
       THEN IF IsThrow(small) THEN N(140)
            ELSE clamp(small, SIZE_CONSTRAINTS.LOGO_MIN_SMALL,
                       SIZE_CONSTRAINTS.LOGO_MAX_SMALL)
     ELSE IF JsGe(width, DEVICE_BREAKPOINTS.TABLET)
       THEN IF IsThrow(tablet) THEN N(140)
            ELSE clamp(tablet, SIZE_CONSTRAINTS.LOGO_MIN_TABLET,
                       SIZE_CONSTRAINTS.LOGO_MAX_TABLET)
     ELSE validatedBaseSize

\* getResponsiveInputHeight with < for <= at the small-device threshold
getResponsiveInputHeightStrict(baseHeightArg) ==
  LET baseHeight == Default(baseHeightArg, N(200))
      validatedBaseHeight == validateNumber(baseHeight, N(50), N(500))
      height == getScreenDimensions.height
      small == safePercentage(height, RESPONSIVE_PERCENTAGES.INPUT_SMALL_DEVICE)
      medium == safePercentage(height, RESPONSIVE_PERCENTAGES.INPUT_MEDIUM_DEVICE)
  IN IF IsThrow(validatedBaseHeight) THEN N(200)
     ELSE IF JsLt(height, HEIGHT_THRESHOLDS.SMALL_DEVICE)
       THEN IF IsThrow(small) THEN N(200)
            ELSE MathMin(small, SIZE_CONSTRAINTS.INPUT_MAX_SMALL)
     ELSE IF JsLe(height, HEIGHT_THRESHOLDS.MEDIUM_DEVICE)
       THEN IF IsThrow(medium) THEN N(200)
            ELSE MathMin(medium, SIZE_CONSTRAINTS.INPUT_MAX_MEDIUM)
     ELSE MathMin(validatedBaseHeight, SIZE_CONSTRAINTS.INPUT_MAX_LARGE)

getResponsiveInputHeight(baseHeightArg) ==
  LET baseHeight == Default(baseHeightArg, N(200))
      validatedBaseHeight == validateNumber(baseHeight, N(50), N(500))
      height == getScreenDimensions.height
      small == safePercentage(height, RESPONSIVE_PERCENTAGES.INPUT_SMALL_DEVICE)
      medium == safePercentage(height, RESPONSIVE_PERCENTAGES.INPUT_MEDIUM_DEVICE)
  IN IF IsThrow(validatedBaseHeight) THEN N(200)
     ELSE IF JsLe(height, HEIGHT_THRESHOLDS.SMALL_DEVICE)
       THEN IF IsThrow(small) THEN N(200)
            ELSE MathMin(small, SIZE_CONSTRAINTS.INPUT_MAX_SMALL)
     ELSE IF JsLe(height, HEIGHT_THRESHOLDS.MEDIUM_DEVICE)
       THEN IF IsThrow(medium) THEN N(200)
            ELSE MathMin(medium, SIZE_CONSTRAINTS.INPUT_MAX_MEDIUM)
     ELSE MathMin(validatedBaseHeight, SIZE_CONSTRAINTS.INPUT_MAX_LARGE)

\* getResponsiveIconContainerSize with the logo's percentages
getResponsiveIconContainerSizeLogoPct(baseSizeArg) ==
  LET baseSize == Default(baseSizeArg, N(140))
      validatedBaseSize == validateNumber(baseSize, N(50), N(300))
      width == getScreenDimensions.width
      small == safePercentage(width, RESPONSIVE_PERCENTAGES.LOGO_SMALL_PHONE_MAX)
      tablet == safePercentage(width, RESPONSIVE_PERCENTAGES.LOGO_TABLET_MAX)
  IN IF IsThrow(validatedBaseSize) THEN N(140)
     ELSE IF JsLe(width, DEVICE_BREAKPOINTS.SMALL_PHONE)
       THEN IF IsThrow(small) THEN N(140)
            ELSE MathMin(small, SIZE_CONSTRAINTS.ICON_MAX_SMALL)
     ELSE IF JsGe(width, DEVICE_BREAKPOINTS.TABLET)
       THEN IF IsThrow(tablet) THEN N(140)
            ELSE MathMin(tablet, SIZE_CONSTRAINTS.ICON_MAX_TABLET)
     ELSE validatedBaseSize

getResponsiveIconContainerSize(baseSizeArg) ==
  LET baseSize == Default(baseSizeArg, N(140))
      validatedBaseSize == validateNumber(baseSize, N(50), N(300))
      width == getScreenDimensions.width
      small == safePercentage(width, RESPONSIVE_PERCENTAGES.ICON_CONTAINER_SMALL_PHONE)
      tablet == safePercentage(width, RESPONSIVE_PERCENTAGES.ICON_CONTAINER_TABLET)
  IN IF IsThrow(validatedBaseSize) THEN N(140)
     ELSE IF JsLe(width, DEVICE_BREAKPOINTS.SMALL_PHONE)
       THEN IF IsThrow(small) THEN N(140)
            ELSE MathMin(small, SIZE_CONSTRAINTS.ICON_MAX_SMALL)
     ELSE IF JsGe(width, DEVICE_BREAKPOINTS.TABLET)
       THEN IF IsThrow(tablet) THEN N(140)
            ELSE MathMin(tablet, SIZE_CONSTRAINTS.ICON_MAX_TABLET)
     ELSE validatedBaseSize

\* getResponsiveMaxWidth without the cap of the base width on standard phones
getResponsiveMaxWidthNoBaseCap(baseWidthArg) ==
  LET baseWidth == Default(baseWidthArg, N(400))
      validatedBaseWidth == validateNumber(baseWidth, N(100), N(1000))
      width == getScreenDimensions.width
      small == safePercentage(width, RESPONSIVE_PERCENTAGES.CONTENT_SMALL_PHONE)
      tablet == safePercentage(width, RESPONSIVE_PERCENTAGES.CONTENT_TABLET)
      maxWidth == safePercentage(width, RESPONSIVE_PERCENTAGES.CONTENT_PHONE)
  IN IF IsThrow(validatedBaseWidth) THEN N(400)
     ELSE IF JsLe(width, DEVICE_BREAKPOINTS.SMALL_PHONE)
       THEN IF IsThrow(small) THEN N(400) ELSE small
     ELSE IF JsGe(width, DEVICE_BREAKPOINTS.TABLET)
       THEN IF IsThrow(tablet) THEN N(400)
            ELSE MathMin(tablet, SIZE_CONSTRAINTS.CONTENT_MAX_TABLET)
     ELSE IF IsThrow(maxWidth) THEN N(400)
     ELSE maxWidth

\* getResponsiveMaxWidth without the tablet's cap
getResponsiveMaxWidthNoTabletCap(baseWidthArg) ==
  LET baseWidth == Default(baseWidthArg, N(400))
      validatedBaseWidth == validateNumber(baseWidth, N(100), N(1000))
      width == getScreenDimensions.width
      small == safePercentage(width, RESPONSIVE_PERCENTAGES.CONTENT_SMALL_PHONE)
      tablet == safePercentage(width, RESPONSIVE_PERCENTAGES.CONTENT_TABLET)
      maxWidth == safePercentage(width, RESPONSIVE_PERCENTAGES.CONTENT_PHONE)
  IN IF IsThrow(validatedBaseWidth) THEN N(400)
     ELSE IF JsLe(width, DEVICE_BREAKPOINTS.SMALL_PHONE)
       THEN IF IsThrow(small) THEN N(400) ELSE small
     ELSE IF JsGe(width, DEVICE_BREAKPOINTS.TABLET)
       THEN IF IsThrow(tablet) THEN N(400) ELSE tablet
     ELSE IF IsThrow(maxWidth) THEN N(400)
     ELSE MathMin(maxWidth, validatedBaseWidth)

getResponsiveMaxWidth(baseWidthArg) ==
  LET baseWidth == Default(baseWidthArg, N(400))
      validatedBaseWidth == validateNumber(baseWidth, N(100), N(1000))
      width == getScreenDimensions.width
      small == safePercentage(width, RESPONSIVE_PERCENTAGES.CONTENT_SMALL_PHONE)
      tablet == safePercentage(width, RESPONSIVE_PERCENTAGES.CONTENT_TABLET)
      maxWidth == safePercentage(width, RESPONSIVE_PERCENTAGES.CONTENT_PHONE)
  IN IF IsThrow(validatedBaseWidth) THEN N(400)
     ELSE IF JsLe(width, DEVICE_BREAKPOINTS.SMALL_PHONE)
       THEN IF IsThrow(small) THEN N(400) ELSE small
     ELSE IF JsGe(width, DEVICE_BREAKPOINTS.TABLET)
       THEN IF IsThrow(tablet) THEN N(400)
            ELSE MathMin(tablet, SIZE_CONSTRAINTS.CONTENT_MAX_TABLET)
     ELSE IF IsThrow(maxWidth) THEN N(400)
     ELSE MathMin(maxWidth, validatedBaseWidth)

\* getResponsiveFontSize with the minimum size applied on tablets too
getResponsiveFontSizeMinEverywhere(baseFontSize) ==
  LET validatedBaseSize == validateFontSize(baseFontSize)
      width == getScreenDimensions.width
      scaledSize == JsMul(validatedBaseSize, RESPONSIVE_PERCENTAGES.FONT_SMALL_PHONE)
  IN IF IsThrow(validatedBaseSize) THEN N(16)
     ELSE IF JsLe(width, DEVICE_BREAKPOINTS.SMALL_PHONE)
       THEN MathMax(scaledSize, SIZE_CONSTRAINTS.FONT_MIN_SIZE)
     ELSE IF JsGe(width, DEVICE_BREAKPOINTS.TABLET)
       THEN MathMax(JsMul(validatedBaseSize, RESPONSIVE_PERCENTAGES.FONT_TABLET),
                    SIZE_CONSTRAINTS.FONT_MIN_SIZE)
     ELSE validatedBaseSize

getResponsiveFontSize(baseFontSize) ==
  LET validatedBaseSize == validateFontSize(baseFontSize)
      width == getScreenDimensions.width
      scaledSize == JsMul(validatedBaseSize, RESPONSIVE_PERCENTAGES.FONT_SMALL_PHONE)
  IN IF IsThrow(validatedBaseSize) THEN N(16)
     ELSE IF JsLe(width, DEVICE_BREAKPOINTS.SMALL_PHONE)
       THEN MathMax(scaledSize, SIZE_CONSTRAINTS.FONT_MIN_SIZE)
     ELSE IF JsGe(width, DEVICE_BREAKPOINTS.TABLET)
       THEN JsMul(validatedBaseSize, RESPONSIVE_PERCENTAGES.FONT_TABLET)
     ELSE validatedBaseSize

\* getResponsiveGridColumns with > for >= at the tablet breakpoint
getResponsiveGridColumnsStrict(mobileColumnsArg, tabletColumnsArg) ==
  LET mobileColumns == Default(mobileColumnsArg, GRID_CONFIG.DEFAULT_MOBILE_COLUMNS)
      tabletColumns == Default(tabletColumnsArg, GRID_CONFIG.DEFAULT_TABLET_COLUMNS)
      validatedMobile == validateNumber(mobileColumns, N(1), N(20))
      validatedTablet == validateNumber(tabletColumns, N(1), N(20))
      width == getScreenDimensions.width
  IN IF IsThrow(validatedMobile) \/ IsThrow(validatedTablet) THEN N(2)
     ELSE IF JsGt(width, DEVICE_BREAKPOINTS.TABLET) THEN validatedTablet
     ELSE validatedMobile

getResponsiveGridColumns(mobileColumnsArg, tabletColumnsArg) ==
  LET mobileColumns == Default(mobileColumnsArg, GRID_CONFIG.DEFAULT_MOBILE_COLUMNS)
      tabletColumns == Default(tabletColumnsArg, GRID_CONFIG.DEFAULT_TABLET_COLUMNS)
      validatedMobile == validateNumber(mobileColumns, N(1), N(20))
      validatedTablet == validateNumber(tabletColumns, N(1), N(20))
      width == getScreenDimensions.width
  IN IF IsThrow(validatedMobile) \/ IsThrow(validatedTablet) THEN N(2)
     ELSE IF JsGe(width, DEVICE_BREAKPOINTS.TABLET) THEN validatedTablet
     ELSE validatedMobile

-----------------------------------------------------------------------------
(* validation.ts and responsiveLayout.ts: safe-area insets *)

\* an insets object; a property that is absent reads as undefined
Obj(top, bottom, left, right) ==
  [k |-> "obj", top |-> top, bottom |-> bottom, left |-> left, right |-> right]

\* validateSafeAreaInsets without the check of insets.right
validateSafeAreaInsetsNoRight(insets) ==
  IF insets.k # "obj"
    THEN Throw("throw: Safe area insets must be an object")
  ELSE
    LET top == validateNumber(Default(insets.top, N(0)), N(0), N(1000))
        bottom == validateNumber(Default(insets.bottom, N(0)), N(0), N(1000))
        left == validateNumber(Default(insets.left, N(0)), N(0), N(1000))
    IN IF IsThrow(top) THEN top
       ELSE IF IsThrow(bottom) THEN bottom
       ELSE IF IsThrow(left) THEN left
       ELSE undefined

\* validateSafeAreaInsets(insets): undefined (void), or the error thrown
validateSafeAreaInsets(insets) ==
  IF insets.k # "obj"
    THEN Throw("throw: Safe area insets must be an object")
  ELSE
    LET top == validateNumber(Default(insets.top, N(0)), N(0), N(1000))
        bottom == validateNumber(Default(insets.bottom, N(0)), N(0), N(1000))
        left == validateNumber(Default(insets.left, N(0)), N(0), N(1000))
        right == validateNumber(Default(insets.right, N(0)), N(0), N(1000))
    IN IF IsThrow(top) THEN top
       ELSE IF IsThrow(bottom) THEN bottom
       ELSE IF IsThrow(left) THEN left
       ELSE IF IsThrow(right) THEN right
       ELSE undefined

getResponsiveHorizontalPadding(basePaddingArg, insetsArg) ==
  LET basePadding == Default(basePaddingArg, LAYOUT_CONSTANTS.HORIZONTAL_PADDING_BASE)
      insets == Default(insetsArg, Obj(undefined, undefined, N(0), N(0)))
      validatedBasePadding == validateNumber(basePadding, N(0), N(100))
      width == getScreenDimensions.width
      left == Default(insets.left, N(0))
      right == Default(insets.right, N(0))
      tabletPadding == JsMul(validatedBasePadding, Frac(150))
  IN IF IsThrow(validatedBasePadding) THEN N(16)
     ELSE IF IsThrow(validateSafeAreaInsets(insets)) THEN N(16)
     ELSE IF JsGe(width, DEVICE_BREAKPOINTS.TABLET)
       THEN MathMax3(tabletPadding,
                     JsAdd(left, LAYOUT_CONSTANTS.HORIZONTAL_PADDING_BASE),
                     JsAdd(right, LAYOUT_CONSTANTS.HORIZONTAL_PADDING_BASE))
     ELSE MathMax3(validatedBasePadding,
                   JsAdd(left, LAYOUT_CONSTANTS.SAFE_AREA_OFFSET),
                   JsAdd(right, LAYOUT_CONSTANTS.SAFE_AREA_OFFSET))

getResponsiveBottomPosition(basePositionArg, insetsArg) ==
  LET basePosition == Default(basePositionArg, LAYOUT_CONSTANTS.BOTTOM_POSITION_BASE)
      insets == Default(insetsArg, Obj(undefined, N(0), undefined, undefined))
      validatedBasePosition == validateNumber(basePosition, N(0), N(500))
      bottom == Default(insets.bottom, N(0))
  IN IF IsThrow(validatedBasePosition) THEN N(32)
     ELSE IF IsThrow(validateSafeAreaInsets(insets)) THEN N(32)
     ELSE MathMax(validatedBasePosition,
                  JsAdd(bottom, LAYOUT_CONSTANTS.SAFE_AREA_OFFSET))

\* the object { bottom, right } that getResponsiveFABPosition returns
FAB(bottom, right) == [k |-> "fab", bottom |-> bottom, right |-> right]

\* getResponsiveFABPosition with the tablet's right margin on phones
getResponsiveFABPositionTabletRight(insetsArg) ==
  LET insets == Default(insetsArg, Obj(undefined, N(0), undefined, N(0)))
      width == getScreenDimensions.width
      bottom == Default(insets.bottom, N(0))
      right == Default(insets.right, N(0))
  IN IF IsThrow(validateSafeAreaInsets(insets)) THEN FAB(N(90), N(20))
     ELSE IF JsGe(width, DEVICE_BREAKPOINTS.TABLET)
       THEN FAB(MathMax(LAYOUT_CONSTANTS.FAB_BOTTOM_TABLET,
                        JsAdd(bottom, LAYOUT_CONSTANTS.TAB_BAR_OFFSET)),
                MathMax(LAYOUT_CONSTANTS.FAB_RIGHT_TABLET,
                        JsAdd(right, LAYOUT_CONSTANTS.HORIZONTAL_PADDING_BASE)))
     ELSE FAB(MathMax(LAYOUT_CONSTANTS.TAB_BAR_OFFSET,
                      JsAdd(bottom, LAYOUT_CONSTANTS.SAFE_AREA_OFFSET)),
              MathMax(LAYOUT_CONSTANTS.FAB_RIGHT_TABLET,
                      JsAdd(right, LAYOUT_CONSTANTS.SAFE_AREA_OFFSET)))

getResponsiveFABPosition(insetsArg) ==
  LET insets == Default(insetsArg, Obj(undefined, N(0), undefined, N(0)))
      width == getScreenDimensions.width
      bottom == Default(insets.bottom, N(0))
      right == Default(insets.right, N(0))
  IN IF IsThrow(validateSafeAreaInsets(insets)) THEN FAB(N(90), N(20))
     ELSE IF JsGe(width, DEVICE_BREAKPOINTS.TABLET)
       THEN FAB(MathMax(LAYOUT_CONSTANTS.FAB_BOTTOM_TABLET,
                        JsAdd(bottom, LAYOUT_CONSTANTS.TAB_BAR_OFFSET)),
                MathMax(LAYOUT_CONSTANTS.FAB_RIGHT_TABLET,
                        JsAdd(right, LAYOUT_CONSTANTS.HORIZONTAL_PADDING_BASE)))
     ELSE FAB(MathMax(LAYOUT_CONSTANTS.TAB_BAR_OFFSET,
                      JsAdd(bottom, LAYOUT_CONSTANTS.SAFE_AREA_OFFSET)),
              MathMax(LAYOUT_CONSTANTS.FAB_RIGHT_PHONE,
                      JsAdd(right, LAYOUT_CONSTANTS.SAFE_AREA_OFFSET)))

getResponsiveModalMaxHeight ==
  LET height == getScreenDimensions.height
  IN IF JsLe(height, HEIGHT_THRESHOLDS.SMALL_DEVICE)
       THEN Str(LAYOUT_CONSTANTS.MODAL_HEIGHT_SMALL)
     ELSE IF JsGe(height, HEIGHT_THRESHOLDS.LARGE_DEVICE)
       THEN Str(LAYOUT_CONSTANTS.MODAL_HEIGHT_TABLET)
     ELSE Str(LAYOUT_CONSTANTS.MODAL_HEIGHT_STANDARD)

\* getResponsiveMinModalHeight without the tablet's upper bound
getResponsiveMinModalHeightNoMax ==
  LET height == getScreenDimensions.height
  IN IF JsLe(height, HEIGHT_THRESHOLDS.SMALL_DEVICE)
       THEN MathMax(JsMul(height, Frac(40)), SIZE_CONSTRAINTS.MODAL_MIN_SMALL)
     ELSE IF JsGe(height, HEIGHT_THRESHOLDS.LARGE_DEVICE)
       THEN MathMax(JsMul(height, Frac(35)), SIZE_CONSTRAINTS.MODAL_MIN_TABLET)
     ELSE MathMax(JsMul(height, Frac(45)), SIZE_CONSTRAINTS.MODAL_MIN_STANDARD)

getResponsiveMinModalHeight ==
  LET height == getScreenDimensions.height
  IN IF JsLe(height, HEIGHT_THRESHOLDS.SMALL_DEVICE)
       THEN MathMax(JsMul(height, Frac(40)), SIZE_CONSTRAINTS.MODAL_MIN_SMALL)
     ELSE IF JsGe(height, HEIGHT_THRESHOLDS.LARGE_DEVICE)
       THEN MathMin(MathMax(JsMul(height, Frac(35)), SIZE_CONSTRAINTS.MODAL_MIN_TABLET),
                    SIZE_CONSTRAINTS.MODAL_MAX_TABLET)
     ELSE MathMax(JsMul(height, Frac(45)), SIZE_CONSTRAINTS.MODAL_MIN_STANDARD)

-----------------------------------------------------------------------------
(* useResponsive.ts *)

\* getMinTouchTarget(componentType = 'generic'): IOS_HIG.MIN_TOUCH_TARGET
getMinTouchTarget == N(44)

\* useWindowDimensions(): the window's dimensions at the time of the render
useWindowDimensions == [width |-> window.width, height |-> window.height]

\* useSafeAreaInsets(): the insets object the safe-area context holds, an
\* object being its identity id and its content obj
useSafeAreaInsets == hook.insets

\* the dependency array of useMemo without insets
useMemoDepsNoInsets(width, height, insets) == <<width, height>>

\* the dependency array [width, height, insets] of useMemo: numbers by
\* value, the insets object by identity
useMemoDeps(width, height, insets) == <<width, height, insets.id>>

\* a comparison of dependency arrays that never finds them equal
areHookInputsEqualNever(nextDeps, prevDeps) == FALSE

\* the comparison of the dependency arrays of two renders by useMemo and
\* useCallback
areHookInputsEqual(nextDeps, prevDeps) == nextDeps = prevDeps

\* useCallback(callback, []): the callback of the first render
useCallback(callback) ==
  IF hook.mounted /\ areHookInputsEqual(<<>>, <<>>)
    THEN hook.callbacks ELSE callback

\* the six functions a render creates, by the number of the render
Callbacks(render) ==
  [getLogoSize |-> render, getInputHeight |-> render, getIconSize |-> render,
   getMaxWidth |-> render, getFontSize |-> render, getGridCols |-> render]

\* the object the factory given to useMemo builds
responsiveValues(width, height, insets, callbacks) ==
  [width |-> width,
   height |-> height,
   isSmallDevice |-> isSmallPhone,
   isTabletDevice |-> isTablet,
   isLandscapeDevice |-> isLandscape,
   deviceType |-> getDeviceType,
   insets |-> insets,
   logoSize |-> getResponsiveLogoSize(undefined),
   inputHeight |-> getResponsiveInputHeight(undefined),
   iconContainerSize |-> getResponsiveIconContainerSize(undefined),
   maxContentWidth |-> getResponsiveMaxWidth(undefined),
   minTouchTarget |-> getMinTouchTarget,
   horizontalPadding |-> getResponsiveHorizontalPadding(undefined, insets.obj),
   bottomPosition |-> getResponsiveBottomPosition(undefined, insets.obj),
   fabPosition |-> getResponsiveFABPosition(insets.obj),
   modalMaxHeight |-> getResponsiveModalMaxHeight,
   modalMinHeight |-> getResponsiveMinModalHeight,
   gridColumns |-> getResponsiveGridColumns(undefined, undefined),
   spacingMultiplier |-> getSpacingMultiplier,
   callbacks |-> callbacks]

\* no object
NoObject == [id |-> 0, value |-> undefined]
\* no render
NoRender == [id |-> 0, seen |-> <<>>, callbacks |-> Callbacks(0)]

\* the hook of a component not yet rendered, under a safe-area context
\* holding insets: renders counts the renders; deps and memo are what useMemo
\* keeps, callbacks what useCallback keeps; computed tells whether the latest
\* render ran the factory; last and prev are the latest render and the one
\* before it: the identity of the object returned, the width, height and
\* insets object read, and the callbacks returned
Unmounted(insets) ==
  [insets |-> [id |-> 1, obj |-> insets], renders |-> 0, mounted |-> FALSE,
   deps |-> <<>>, memo |-> NoObject, callbacks |-> Callbacks(0),
   computed |-> FALSE, last |-> NoRender, prev |-> NoRender]

-----------------------------------------------------------------------------
(* The values the environment and the callers supply *)

\* distance from a threshold at which the values next to it are taken
Spread == 1

\* the number of renders of the component, and of insets objects the
\* safe-area context provides
MaxRenders == 3
MaxInsetsObjects == 2

\* the windows of the component: a small phone upright and on its side, a
\* medium phone, a tablet upright and on its side, and a window without width
HookWindows ==
  {[width |-> N(375), height |-> N(667)], [width |-> N(667), height |-> N(375)],
   [width |-> N(414), height |-> N(896)],
   [width |-> N(768), height |-> N(1024)], [width |-> N(1024), height |-> N(768)],
   [width |-> NaN, height |-> N(896)]}

\* the insets of the safe-area context: upright with a notch, on its side,
\* none
HookInsets ==
  {Obj(N(44), N(34), N(0), N(0)), Obj(N(0), N(21), N(44), N(44)),
   Obj(N(0), N(0), N(0), N(0))}

NoCall == [fn |-> "none", a1 |-> undefined, a2 |-> undefined, a3 |-> undefined,
           ret |-> undefined]

Widths ==
  {NaN, N(100 - Spread), N(100), N(375), N(375 + Spread), N(414),
   N(414 + Spread), N(428), N(428 + Spread), N(768 - Spread), N(768),
   N(1024 - Spread), N(1024), N(10000), N(10000 + Spread)}

Heights ==
  {NaN, N(100 - Spread), N(100), N(667), N(667 + Spread), N(844),
   N(844 + Spread), N(1024 - Spread), N(1024), N(10000), N(10000 + Spread)}

\* every value of one dimension, with a small-phone, a standard and a tablet
\* value of the other
Windows ==
  {w \in [width : Widths, height : Heights] :
     \/ w.width \in {N(375), N(414), N(1024)}
     \/ w.height \in {N(667), N(844), N(1024)}}

\* arguments around a declared range [lo, hi], with one value mid inside it
ArgsAround(lo, mid, hi) ==
  {undefined, null, NaN, Infinity, N(lo - Spread), N(lo), N(mid), N(hi),
   N(hi + Spread)}

\* the values of one inset: absent, valid ones and invalid ones
InsetValues ==
  {undefined, NaN, N(0 - Spread), N(0), N(34), N(1000), N(1000 + Spread)}

InsetsPresent == InsetValues \ {undefined}

\* the insets arguments: no argument, null, a number, the empty object, the
\* objects with one property, with bottom and right, with left and right, and
\* objects with all four
InsetsArgs ==
  {undefined, null, N(34), Obj(undefined, undefined, undefined, undefined)}
  \cup {Obj(x, undefined, undefined, undefined) : x \in InsetsPresent}
  \cup {Obj(undefined, undefined, x, undefined) : x \in InsetsPresent}
  \cup {Obj(undefined, b, undefined, r) : b \in InsetValues, r \in InsetValues}
  \cup {Obj(undefined, undefined, l, r) : l \in InsetsPresent, r \in InsetsPresent}
  \cup {Obj(N(44), N(34), N(0), N(0)), Obj(N(44), N(34), N(0 - Spread), N(0)),
        Obj(N(1000 + Spread), N(34), N(0), N(0))}

\* the (min, max) pairs validateNumber is called with
RangeArgs ==
  {<<undefined, undefined>>, <<N(0), undefined>>, <<N(0), N(500)>>,
   <<N(50), N(500)>>, <<N(0), Infinity>>, <<N(500), N(50)>>}

\* the values clamp is called with, and its (min, max) pairs
ClampValues ==
  {NaN, NegInfinity, Infinity, N(0 - Spread), N(0), N(50), N(100),
   N(100 + Spread)}

ClampRanges ==
  {<<N(0), N(100)>>, <<N(50), N(50)>>, <<N(0), Infinity>>,
   <<NegInfinity, N(100)>>, <<N(100), N(0)>>}

\* the values and the percentages safePercentage is called with
PercentageValues ==
  {undefined, null, NaN, Infinity, NegInfinity, aString, N(0 - Spread), N(0),
   N(100), N(375), N(10000 + Spread)}

Percentages ==
  {NaN, NegInfinity, Infinity, Frac(0 - Spread), N(0), Frac(28), Frac(50),
   N(1), Frac(100 + Spread)}

\* the arguments validateSafeAreaInsets is called with: the insets arguments,
\* and objects with a property that is null, infinite or a string
ValidateInsetsArgs ==
  InsetsArgs
  \cup {Obj(null, undefined, undefined, undefined),
        Obj(N(0), Infinity, N(0), N(0)),
        Obj(N(0), N(0), NegInfinity, N(0)),
        Obj(N(0), N(0), N(0), aString)}

ValueArgs ==
  {undefined, null, NaN, Infinity, NegInfinity, aString,
   N(0 - Spread), N(0), N(50 - Spread), N(50), N(100), N(500), N(500 + Spread),
   N(10000), N(10000 + Spread)}

-----------------------------------------------------------------------------
(* Actions *)

Init ==
  /\ window \in Windows
  /\ pc = "idle"
  /\ call = NoCall
  /\ hook = Unmounted(Obj(N(0), N(0), N(0), N(0)))

\* the host changes the window (resize, rotation) between two calls
ChangeTo(windows) ==
  /\ pc = "idle"
  /\ \E w \in windows : w # window /\ window' = w
  /\ UNCHANGED <<pc, call, hook>>

DimensionsChange == ChangeTo(Windows)

\* a call made while idle runs to its end: the arguments and the value
\* it returned are kept until the caller resumes
Returned(fn, a1, a2, a3, ret) ==
  /\ pc = "idle"
  /\ pc' = "returned"
  /\ call' = [fn |-> fn, a1 |-> a1, a2 |-> a2, a3 |-> a3, ret |-> ret]
  /\ UNCHANGED <<window, hook>>

CallValidateNumber ==
  \E value \in ValueArgs, range \in RangeArgs :
    Returned("validateNumber", value, range[1], range[2],
             validateNumber(value, range[1], range[2]))

CallLogoSize ==
  \E b \in ArgsAround(50, 150, 500) :
    Returned("getResponsiveLogoSize", b, undefined, undefined,
             getResponsiveLogoSize(b))

CallInputHeight ==
  \E b \in ArgsAround(50, 150, 500) :
    Returned("getResponsiveInputHeight", b, undefined, undefined,
             getResponsiveInputHeight(b))

CallIconContainerSize ==
  \E b \in ArgsAround(50, 150, 300) :
    Returned("getResponsiveIconContainerSize", b, undefined, undefined,
             getResponsiveIconContainerSize(b))

CallMaxWidth ==
  \E b \in ArgsAround(100, 350, 1000) :
    Returned("getResponsiveMaxWidth", b, undefined, undefined,
             getResponsiveMaxWidth(b))

CallFontSize ==
  \E b \in ArgsAround(1, 10, 1000) \cup {N(20)} :
    Returned("getResponsiveFontSize", b, undefined, undefined,
             getResponsiveFontSize(b))

CallGridColumns ==
  \E m \in ArgsAround(1, 3, 20), t \in ArgsAround(1, 5, 20) :
    Returned("getResponsiveGridColumns", m, t, undefined,
             getResponsiveGridColumns(m, t))

CallHorizontalPadding ==
  \E b \in {undefined, NaN, N(0 - Spread), N(0), N(100), N(100 + Spread)},
     i \in InsetsArgs :
    Returned("getResponsiveHorizontalPadding", b, i, undefined,
             getResponsiveHorizontalPadding(b, i))

CallBottomPosition ==
  \E b \in {undefined, NaN, N(0 - Spread), N(0), N(500), N(500 + Spread)},
     i \in InsetsArgs :
    Returned("getResponsiveBottomPosition", b, i, undefined,
             getResponsiveBottomPosition(b, i))

CallFABPosition ==
  \E i \in InsetsArgs :
    Returned("getResponsiveFABPosition", i, undefined, undefined,
             getResponsiveFABPosition(i))

CallModalMaxHeight ==
  Returned("getResponsiveModalMaxHeight", undefined, undefined, undefined,
           getResponsiveModalMaxHeight)

CallMinModalHeight ==
  Returned("getResponsiveMinModalHeight", undefined, undefined, undefined,
           getResponsiveMinModalHeight)

\* the object { width, height } that getScreenDimensions returns
Dims(d) == [k |-> "dims", width |-> d.width, height |-> d.height]

CallGetScreenDimensions ==
  Returned("getScreenDimensions", undefined, undefined, undefined,
           Dims(getScreenDimensions))

CallIsSmallPhone ==
  Returned("isSmallPhone", undefined, undefined, undefined, isSmallPhone)

CallIsTablet ==
  Returned("isTablet", undefined, undefined, undefined, isTablet)

CallIsLandscape ==
  Returned("isLandscape", undefined, undefined, undefined, isLandscape)

CallGetDeviceType ==
  Returned("getDeviceType", undefined, undefined, undefined, getDeviceType)

CallGetSpacingMultiplier ==
  Returned("getSpacingMultiplier", undefined, undefined, undefined,
           getSpacingMultiplier)

CallClamp ==
  \E value \in ClampValues, range \in ClampRanges :
    Returned("clamp", value, range[1], range[2],
             clamp(value, range[1], range[2]))

CallSafePercentage ==
  \E value \in PercentageValues, percentage \in Percentages :
    Returned("safePercentage", value, percentage, undefined,
             safePercentage(value, percentage))

CallValidateSafeAreaInsets ==
  \E insets \in ValidateInsetsArgs :
    Returned("validateSafeAreaInsets", insets, undefined, undefined,
             validateSafeAreaInsets(insets))

\* the caller takes the returned value
Resume ==
  /\ pc = "returned"
  /\ pc' = "idle"
  /\ call' = NoCall
  /\ UNCHANGED <<window, hook>>

Next ==
  \/ DimensionsChange
  \/ CallValidateNumber
  \/ CallLogoSize
  \/ CallInputHeight
  \/ CallIconContainerSize
  \/ CallMaxWidth
  \/ CallFontSize
  \/ CallGridColumns
  \/ CallHorizontalPadding
  \/ CallBottomPosition
  \/ CallFABPosition
  \/ CallModalMaxHeight
  \/ CallMinModalHeight
  \/ CallGetScreenDimensions
  \/ CallIsSmallPhone
  \/ CallIsTablet
  \/ CallIsLandscape
  \/ CallGetDeviceType
  \/ CallGetSpacingMultiplier
  \/ CallClamp
  \/ CallSafePercentage
  \/ CallValidateSafeAreaInsets
  \/ Resume

Spec == Init /\ [][Next]_vars

-----------------------------------------------------------------------------
(* The component that calls useResponsive *)

InitHook ==
  /\ window \in HookWindows
  /\ pc = "idle"
  /\ call = NoCall
  /\ \E insets \in HookInsets : hook = Unmounted(insets)

\* the window changes to another of the component's windows
HookDimensionsChange == ChangeTo(HookWindows)

\* the safe-area context provides a new insets object
InsetsChange ==
  /\ pc = "idle"
  /\ hook.insets.id < MaxInsetsObjects
  /\ \E insets \in HookInsets :
       hook' = [hook EXCEPT !.insets = [id |-> @.id + 1, obj |-> insets]]
  /\ UNCHANGED <<window, pc, call>>

\* a render of the component: useResponsive() runs and returns the object
\* useMemo gives it, an object being its identity id (the number of the
\* render that built it) and its content value
Render ==
  /\ pc = "idle"
  /\ hook.renders < MaxRenders
  /\ LET render == hook.renders + 1
         width == useWindowDimensions.width
         height == useWindowDimensions.height
         insets == useSafeAreaInsets
         callbacks == useCallback(Callbacks(render))
         nextDeps == useMemoDeps(width, height, insets)
         compute == ~hook.mounted \/ ~areHookInputsEqual(nextDeps, hook.deps)
         memo == IF compute
                   THEN [id |-> render,
                         value |-> responsiveValues(width, height, insets,
                                                    callbacks)]
                   ELSE hook.memo
     IN /\ hook' = [hook EXCEPT
                      !.renders = render, !.mounted = TRUE,
                      !.deps = IF compute THEN nextDeps ELSE @,
                      !.memo = memo, !.callbacks = callbacks,
                      !.computed = compute,
                      !.prev = hook.last,
                      !.last = [id |-> memo.id,
                                seen |-> <<width, height, insets.id>>,
                                callbacks |-> callbacks]]
        /\ call' = [fn |-> "useResponsive", a1 |-> undefined, a2 |-> undefined,
                    a3 |-> undefined, ret |-> memo]
  /\ pc' = "returned"
  /\ UNCHANGED window

NextHook ==
  \/ HookDimensionsChange
  \/ InsetsChange
  \/ Render
  \/ Resume

SpecHook == InitHook /\ [][NextHook]_vars

-----------------------------------------------------------------------------
(* Vocabulary of the properties: plain integers, in hundredths *)

Min2(a, b) == IF a <= b THEN a ELSE b
Max2(a, b) == IF a >= b THEN a ELSE b

\* x is a finite number with lo <= x <= hi (lo and hi in pixels)
Within(x, lo, hi) == x.k = "num" /\ lo * 100 <= x.v /\ x.v <= hi * 100

\* both window dimensions are finite numbers in [100, 10000]
ValidWindow == Within(window.width, 100, 10000) /\ Within(window.height, 100, 10000)

\* percent per cent of v
Pct(v, percent) == (v * percent) \div 100

Called(fn) == pc = "returned" /\ call.fn = fn

-----------------------------------------------------------------------------
(* Properties *)

C3_InputHeight ==
  (Called("getResponsiveInputHeight") /\ Within(call.a1, 50, 500) /\ ValidWindow) =>
    LET h == window.height.v
        r == call.ret
    IN /\ r.k = "num"
       /\ h <= 66700 =>
            r.v = Min2(Pct(h, 15), 12000) /\ r.v <= 12000
       /\ (66700 < h /\ h <= 84400) =>
            r.v = Min2(Pct(h, 18), 15000) /\ r.v <= 15000
       /\ h > 84400 =>
            r.v = Min2(call.a1.v, 20000) /\ r.v <= 20000

\* a tall screen and a base height above the cap of 200
C3_Witness ==
  /\ Called("getResponsiveInputHeight")
  /\ window = [width |-> N(414), height |-> N(844 + Spread)]
  /\ call.a1 = N(500)
  /\ call.ret = N(200)

\* C4: getResponsiveIconContainerSize, for a valid baseSize (50..300) and a
\* valid window, returns min(width*0.30, 120) when width <= 375,
\* min(width*0.20, 180) when width >= 1024, and baseSize unchanged for every
\* other width.
C4_IconContainerSize ==
  (Called("getResponsiveIconContainerSize") /\ Within(call.a1, 50, 300)
     /\ ValidWindow) =>
    LET w == window.width.v
        r == call.ret
    IN /\ r.k = "num"
       /\ w <= 37500 => r.v = Min2(Pct(w, 30), 12000) /\ r.v <= 12000
       /\ w >= 102400 => r.v = Min2(Pct(w, 20), 18000) /\ r.v <= 18000
       /\ (37500 < w /\ w < 102400) => r = call.a1

\* a 375-pixel-wide window: 30% of the width is 112.5
C4_Witness ==
  /\ Called("getResponsiveIconContainerSize")
  /\ window = [width |-> N(375), height |-> N(667)]
  /\ call.a1 = N(150)
  /\ call.ret = Frac(11250)

\* C5: getResponsiveMaxWidth, for a valid baseWidth (100..1000) and a valid
\* window, returns width*0.90 with no cap when width <= 375,
\* min(width*0.60, 600) when width >= 1024, and min(width*0.85, baseWidth)
\* for every other width.
C5_MaxWidth ==
  (Called("getResponsiveMaxWidth") /\ Within(call.a1, 100, 1000) /\ ValidWindow) =>
    LET w == window.width.v
        r == call.ret
    IN /\ r.k = "num"
       /\ w <= 37500 => r.v = Pct(w, 90)
       /\ w >= 102400 => r.v = Min2(Pct(w, 60), 60000)
       /\ (37500 < w /\ w < 102400) => r.v = Min2(Pct(w, 85), call.a1.v)

\* a standard phone whose 85% of the width (351.9) is below the base width
C5_Witness ==
  /\ Called("getResponsiveMaxWidth")
  /\ window = [width |-> N(414), height |-> N(844)]
  /\ call.a1 = N(1000)
  /\ call.ret = Frac(35190)

\* C6: getResponsiveFontSize, for a valid baseFontSize (1..1000) and a valid
\* window, returns max(baseFontSize*0.90, 11) when width <= 375 (never below
\* 11 there), baseFontSize*1.10 when width >= 1024, and baseFontSize unchanged
\* for every other width: the minimum of 11 applies on small phones only.
C6_FontSize ==
  (Called("getResponsiveFontSize") /\ Within(call.a1, 1, 1000) /\ ValidWindow) =>
    LET w == window.width.v
        r == call.ret
    IN /\ r.k = "num"
       /\ w <= 37500 => r.v = Max2(Pct(call.a1.v, 90), 1100) /\ r.v >= 1100
       /\ w >= 102400 => r.v = Pct(call.a1.v, 110)
       /\ (37500 < w /\ w < 102400) => r = call.a1

\* a tablet and a base font size of 1: the result, 1.10, is below 11
C6_Witness ==
  /\ Called("getResponsiveFontSize")
  /\ window = [width |-> N(1024), height |-> N(1024)]
  /\ call.a1 = N(1)
  /\ call.ret = Frac(110)

\* the width the functions work with: the window's, or 414 when the window
\* is not valid
ValidatedWidth == IF ValidWindow THEN window.width.v ELSE 41400

\* C7: getResponsiveGridColumns(mobileColumns, tabletColumns), both valid
\* (1..20), returns tabletColumns when the validated window width is >= 1024
\* and mobileColumns for every smaller width; the result is one of the two.
C7_GridColumns ==
  (Called("getResponsiveGridColumns") /\ Within(call.a1, 1, 20)
     /\ Within(call.a2, 1, 20)) =>
    /\ ValidatedWidth >= 102400 => call.ret = call.a2
    /\ ValidatedWidth < 102400 => call.ret = call.a1
    /\ call.ret \in {call.a1, call.a2}

\* the narrowest tablet takes the tablet columns
C7_Witness ==
  /\ Called("getResponsiveGridColumns")
  /\ window = [width |-> N(1024), height |-> N(667)]
  /\ call.a1 = N(3) /\ call.a2 = N(5)
  /\ call.ret = N(5)

\* an insets object whose properties, where present, are finite and in [0, 1000]
ValidInsets(i) ==
  /\ i.k = "obj"
  /\ \A f \in {"top", "bottom", "left", "right"} :
       i[f] = undefined \/ Within(i[f], 0, 1000)

\* the inset f of the object i in hundredths, an absent one being 0
Inset(i, f) == IF i[f] = undefined THEN 0 ELSE i[f].v

\* C8: getResponsiveFABPosition with valid insets (each in [0, 1000]) computes
\* each coordinate as max(constant, inset + offset).  With width the validated
\* window width the function reads: for width >= 1024, bottom >= 100 and
\* right >= 24; for every smaller width, bottom >= 90 and right >= 20; in both
\* classes each coordinate is at least its inset plus its offset.
C8_FABPosition ==
  (Called("getResponsiveFABPosition") /\ ValidInsets(call.a1)) =>
    LET b == Inset(call.a1, "bottom")
        r == Inset(call.a1, "right")
        ret == call.ret
    IN /\ ret.k = "fab" /\ ret.bottom.k = "num" /\ ret.right.k = "num"
       /\ ValidatedWidth >= 102400 =>
            /\ ret.bottom.v = Max2(10000, b + 9000)
            /\ ret.right.v = Max2(2400, r + 1600)
            /\ ret.bottom.v >= 10000 /\ ret.right.v >= 2400
            /\ ret.bottom.v >= b + 9000 /\ ret.right.v >= r + 1600
       /\ ValidatedWidth < 102400 =>
            /\ ret.bottom.v = Max2(9000, b + 1600)
            /\ ret.right.v = Max2(2000, r + 1600)
            /\ ret.bottom.v >= 9000 /\ ret.right.v >= 2000
            /\ ret.bottom.v >= b + 1600 /\ ret.right.v >= r + 1600

\* a phone with a home indicator (bottom inset 34) and a right inset of 1000
C8_Witness ==
  /\ Called("getResponsiveFABPosition")
  /\ window = [width |-> N(414), height |-> N(844)]
  /\ call.a1 = Obj(undefined, N(34), undefined, N(1000))
  /\ call.ret = FAB(N(90), N(1016))

\* C9: for every valid insets object and every window width (phone or
\* tablet), the bottom getResponsiveFABPosition returns is at least
\* insets.bottom + 90, the bottom inset plus TAB_BAR_OFFSET.
C9_FABAboveTabBar ==
  (Called("getResponsiveFABPosition") /\ ValidInsets(call.a1)) =>
    /\ call.ret.k = "fab" /\ call.ret.bottom.k = "num"
    /\ call.ret.bottom.v >= Inset(call.a1, "bottom") + 9000

\* the value the code takes for an absent min or max of validateNumber
OrDefault(x, px) == IF x = undefined THEN N(px) ELSE x

\* v <= bound, for an integer v in hundredths and a bound that is finite or
\* Infinity
AtMost(v, bound) == bound.k = "inf" \/ v <= bound.v

\* C10: validateNumber(value, name, min, max) returns value unchanged exactly
\* when value is a defined, non-null, non-NaN, finite number with
\* min <= value <= max (both inclusive), and throws in every other case; the
\* checks are made in the order missing, not-a-number, non-finite, below min,
\* above max (min and max being numbers, 0 and 10000 when absent).
C10_ValidateNumber ==
  Called("validateNumber") =>
    LET value == call.a1
        lo == OrDefault(call.a2, 0)
        hi == OrDefault(call.a3, 10000)
        ret == call.ret
        accepted == /\ value.k = "num"
                    /\ lo.v <= value.v
                    /\ AtMost(value.v, hi)
    IN /\ accepted <=> ret = value
       /\ ~accepted => ret.k \in ThrowKinds
       /\ value.k \in {"undefined", "null"} => ret.k = "throw: is required"
       /\ value.k \in {"str", "nan"} => ret.k = "throw: must be a valid number"
       /\ value.k = "inf" => ret.k = "throw: must be a finite number"
       /\ (value.k = "num" /\ value.v < lo.v) => ret.k = "throw: must be at least"
       /\ (value.k = "num" /\ value.v >= lo.v /\ ~AtMost(value.v, hi)) =>
            ret.k = "throw: must be at most"

\* min above max and a value between them: both range checks fail, and the
\* one on min is reported
C10_Witness ==
  /\ Called("validateNumber")
  /\ call.a1 = N(100) /\ call.a2 = N(500) /\ call.a3 = N(50)
  /\ call.ret = Throw("throw: must be at least")

\* x fails validation against [lo, hi]: null, not a number, NaN, infinite or
\* out of range
Invalid(x, lo, hi) ==
  \/ x.k \in {"null", "str", "nan", "inf"}
  \/ x.k = "num" /\ (x.v < lo * 100 \/ x.v > hi * 100)

\* an insets argument that fails validation: not an object, or an object
\* with an inset that is present and invalid
InvalidInsets(i) ==
  \/ i.k \notin {"obj", "undefined"}
  \/ /\ i.k = "obj"
     /\ \E f \in {"top", "bottom", "left", "right"} : Invalid(i[f], 0, 1000)

\* the functions that return a number, and what they return
ReturnsNumber ==
  {"getResponsiveLogoSize", "getResponsiveInputHeight",
   "getResponsiveIconContainerSize", "getResponsiveMaxWidth",
   "getResponsiveFontSize", "getResponsiveGridColumns",
   "getResponsiveHorizontalPadding", "getResponsiveBottomPosition",
   "getResponsiveMinModalHeight"}

ValidatedHeight == IF ValidWindow THEN window.height.v ELSE 89600

C12_DeviceType ==
  Called("getDeviceType") =>
    LET w == ValidatedWidth
        ret == call.ret
    IN /\ ret.k = "str"
       /\ ret.s \in {"SMALL_PHONE", "MEDIUM_PHONE", "LARGE_PHONE", "TABLET"}
       /\ ret.s = "SMALL_PHONE" <=> w <= 37500
       /\ ret.s = "MEDIUM_PHONE" <=> (37500 < w /\ w <= 41400)
       /\ ret.s = "LARGE_PHONE" <=> (41400 < w /\ w <= 42800)
       /\ ret.s = "TABLET" <=> w > 42800

\* the widest large phone, 428 pixels
C12_Witness ==
  /\ Called("getDeviceType")
  /\ window = [width |-> N(428), height |-> N(844)]
  /\ call.ret.s = "LARGE_PHONE"

\* C13: over the validated window dimensions, isSmallPhone() is true exactly
\* when width <= 375, isTablet() exactly when width >= 768, isLandscape()
\* exactly when width > height; isSmallPhone() and isTablet() are never both
\* true of one window.
C13_DeviceFlags ==
  /\ Called("isSmallPhone") =>
       /\ call.ret.k = "bool"
       /\ call.ret.v = 1 <=> ValidatedWidth <= 37500
       /\ call.ret.v = 1 => isTablet.v = 0
  /\ Called("isTablet") =>
       /\ call.ret.k = "bool"
       /\ call.ret.v = 1 <=> ValidatedWidth >= 76800
       /\ call.ret.v = 1 => isSmallPhone.v = 0
  /\ Called("isLandscape") =>
       /\ call.ret.k = "bool"
       /\ call.ret.v = 1 <=> ValidatedWidth > ValidatedHeight

\* the narrowest window that isTablet() takes for a tablet, 768 pixels
C13_Witness ==
  /\ Called("isTablet")
  /\ window = [width |-> N(768), height |-> N(1024)]
  /\ call.ret = Bool(TRUE)

\* what the clamp claim says of a call clamp(value, min, max) returning r
ClampedAsClaimed(value, min, max, r) ==
  /\ JsLe(min, r) /\ JsLe(r, max)
  /\ (JsLe(min, value) /\ JsLe(value, max)) => r = value
  /\ JsLt(value, min) => r = min
  /\ JsGt(value, max) => r = max
  /\ clamp(r, min, max) = r

\* C16, as stated: clamp(value, min, max) with min <= max returns a result r
\* with min <= r <= max, value itself when min <= value <= max, min when
\* value < min, max when value > max, and clamping the result again returns
\* the result.
C16_ClampAnyValue ==
  (Called("clamp") /\ JsLe(call.a2, call.a3)) =>
    ClampedAsClaimed(call.a1, call.a2, call.a3, call.ret)

\* C16, amended: the same for every value that is not NaN; clamp(NaN, min,
\* max) is NaN, which is not between min and max.
C16_Clamp ==
  /\ (Called("clamp") /\ JsLe(call.a2, call.a3) /\ ~isNaN(call.a1)) =>
       ClampedAsClaimed(call.a1, call.a2, call.a3, call.ret)
  /\ (Called("clamp") /\ isNaN(call.a1)) => isNaN(call.ret)

\* a value one above the upper bound is clamped to the bound
C16_Witness ==
  /\ Called("clamp")
  /\ call.a1 = N(100 + Spread) /\ call.a2 = N(0) /\ call.a3 = N(100)
  /\ call.ret = N(100)

\* C17: safePercentage(value, percentage) throws when value is negative or
\* not a finite number; otherwise it returns value times the percentage
\* clamped to [0, 1], so that 0 <= result <= value: 0 for a percentage below
\* 0, value for a percentage above 1.
C17_SafePercentage ==
  Called("safePercentage") =>
    LET value == call.a1
        percentage == call.a2
        r == call.ret
    IN IF value.k # "num" \/ value.v < 0
         THEN IsThrow(r)
         ELSE /\ r.k = "num"
              /\ 0 <= r.v /\ r.v <= value.v
              /\ JsLt(percentage, N(0)) => r.v = 0
              /\ JsGt(percentage, N(1)) => r.v = value.v
              /\ (JsLe(N(0), percentage) /\ JsLe(percentage, N(1))) =>
                   r.v = Pct(value.v, percentage.v)

\* C18: validateSafeAreaInsets returns without throwing exactly when its
\* argument is a non-null object whose top, bottom, left and right, a missing
\* one taken as 0, are finite numbers in [0, 1000]; it throws for an argument
\* that is not an object and for any inset below 0 or above 1000.
C18_ValidateSafeAreaInsets ==
  Called("validateSafeAreaInsets") =>
    LET insets == call.a1
        r == call.ret
    IN /\ ~IsThrow(r) <=> ValidInsets(insets)
       /\ ~IsThrow(r) => r = undefined
       /\ insets.k # "obj" => IsThrow(r)
       /\ (/\ insets.k = "obj"
           /\ \E f \in {"top", "bottom", "left", "right"} :
                JsLt(insets[f], N(0)) \/ JsGt(insets[f], N(1000))) =>
            IsThrow(r)

\* an object whose only fault is a right inset one above 1000
C18_Witness ==
  /\ Called("validateSafeAreaInsets")
  /\ call.a1 = Obj(undefined, N(34), undefined, N(1000 + Spread))
  /\ call.ret = Throw("throw: must be at most")

\* C19: getResponsiveInputHeight returns a height of 100 to 120 when the
\* window height is at most 667, 120 to 150 when it is above 667 and at most
\* 844, and 150 to 200 on every taller window, for every valid window height
\* and valid baseHeight.
C19_InputHeightRanges ==
  (Called("getResponsiveInputHeight") /\ Within(call.a1, 50, 500) /\ ValidWindow) =>
    LET h == window.height.v
        r == call.ret
    IN /\ h <= 66700 => Within(r, 100, 120)
       /\ (66700 < h /\ h <= 84400) => Within(r, 120, 150)
       /\ h > 84400 => Within(r, 150, 200)

\* C20: on phones (width < 1024) getResponsiveHorizontalPadding adds to
\* insets.left and insets.right a constant strictly smaller than the constant
\* the tablet branch (width >= 1024) adds.  Whenever a phone call returns more
\* than its base padding, the result is the larger inset plus the phone
\* constant, so the result less the larger inset is below the tablet constant.
C20_PhoneOffsetSmaller ==
  (/\ Called("getResponsiveHorizontalPadding")
   /\ Within(Default(call.a1, LAYOUT_CONSTANTS.HORIZONTAL_PADDING_BASE), 0, 100)
   /\ ValidInsets(call.a2)
   /\ ValidatedWidth < DEVICE_BREAKPOINTS.TABLET.v
   /\ call.ret.v > Default(call.a1, LAYOUT_CONSTANTS.HORIZONTAL_PADDING_BASE).v) =>
    call.ret.v - Max2(Inset(call.a2, "left"), Inset(call.a2, "right"))
      < LAYOUT_CONSTANTS.HORIZONTAL_PADDING_BASE.v

\* C14: whatever changes of the window dimensions (orientation swaps
\* among them) and of the safe-area insets came before it, a render of
\* useResponsive returns an object that carries the current width, height
\* and insets object and every derived value computed from the current
\* dimensions and insets: the memo never serves a value of earlier ones.
C14_HookCurrent ==
  Called("useResponsive") =>
    LET value == call.ret.value
    IN /\ value.width = window.width
       /\ value.height = window.height
       /\ value.insets = hook.insets
       /\ value = responsiveValues(window.width, window.height, hook.insets,
                                   hook.callbacks)
       /\ value.isLandscapeDevice = Bool(ValidatedWidth > ValidatedHeight)
       /\ ValidInsets(hook.insets.obj) =>
            value.bottomPosition.v = Max2(3200, Inset(hook.insets.obj, "bottom") + 1600)

\* the phone turned on its side after an upright render, and new insets
C14_Witness ==
  /\ Called("useResponsive")
  /\ window = [width |-> N(667), height |-> N(375)]
  /\ hook.prev.seen = <<N(375), N(667), 1>>
  /\ hook.insets = [id |-> 2, obj |-> Obj(N(0), N(21), N(44), N(44))]
  /\ call.ret.value.isLandscapeDevice = Bool(TRUE)
  /\ call.ret.value.horizontalPadding = N(60)

\* C15: of two consecutive renders of useResponsive, the second returns the
\* object the first returned, without running the factory, when width, height
\* and the insets object are all the same, and a newly computed object exactly
\* when one of them differs; the six callbacks are the same functions in
\* every render.
C15_HookMemo ==
  (Called("useResponsive") /\ hook.prev.id # 0) =>
    /\ hook.last.seen = hook.prev.seen =>
         call.ret.id = hook.prev.id /\ ~hook.computed
    /\ hook.last.seen # hook.prev.seen =>
         call.ret.id # hook.prev.id /\ hook.computed
    /\ hook.last.callbacks = hook.prev.callbacks
    /\ call.ret.value.callbacks = hook.prev.callbacks
    /\ hook.last.callbacks = Callbacks(1)

\* a third render with nothing changed since the second, which had computed
\* a new object
C15_Witness ==
  /\ Called("useResponsive")
  /\ hook.renders = 3
  /\ hook.last.seen = hook.prev.seen
  /\ call.ret.id = 2
  /\ ~hook.computed

\* C21: getResponsiveMinModalHeight, for every valid window height, returns
\* max(height*0.4, 250) when height <= 667, clamp(height*0.35, 350, 500) when
\* height >= 1024, and max(height*0.45, 300) for every height in between; so
\* at least 250, within [350, 500], and at least 300 respectively.  For no
\* window, valid or not, is the result below 250.
C21_MinModalHeight ==
  Called("getResponsiveMinModalHeight") =>
    LET h == window.height.v
        r == call.ret
    IN /\ r.k = "num" /\ r.v >= 25000
       /\ ValidWindow =>
            /\ h <= 66700 => r.v = Max2(Pct(h, 40), 25000)
            /\ h >= 102400 =>
                 /\ r.v = Min2(Max2(Pct(h, 35), 35000), 50000)
                 /\ 35000 <= r.v /\ r.v <= 50000
            /\ (66700 < h /\ h < 102400) =>
                 r.v = Max2(Pct(h, 45), 30000) /\ r.v >= 30000

\* the tallest window: 35% of 10000 is capped at 500
C21_Witness ==
  /\ Called("getResponsiveMinModalHeight")
  /\ window = [width |-> N(1024), height |-> N(10000)]
  /\ call.ret = N(500)

\* C22: for every window width, getDeviceType() returns DeviceType.TABLET if
\* and only if isTablet() returns true.
C22_TabletAgreement ==
  Called("getDeviceType") =>
    (call.ret = DeviceType.TABLET <=> isTablet = Bool(TRUE))

\* C23: for every window width at which isTablet() returns true,
\* getResponsiveGridColumns(m, t) with valid m and t returns the tablet
\* column count t.
C23_TabletGridColumns ==
  (/\ Called("getResponsiveGridColumns")
   /\ Within(call.a1, 1, 20) /\ Within(call.a2, 1, 20)
   /\ isTablet = Bool(TRUE)) =>
    call.ret = call.a2

\* C24: for every valid window width >= 1024 and every valid base argument,
\* getResponsiveIconContainerSize returns exactly 180 and
\* getResponsiveMaxWidth exactly 600, whatever the width and the base: 20%
\* and 60% of such a width are above the caps.
C24_TabletConstants ==
  (ValidWindow /\ window.width.v >= 102400) =>
    /\ (Called("getResponsiveIconContainerSize") /\ Within(call.a1, 50, 300)) =>
         /\ Pct(window.width.v, 20) > 18000
         /\ call.ret = N(180)
    /\ (Called("getResponsiveMaxWidth") /\ Within(call.a1, 100, 1000)) =>
         /\ Pct(window.width.v, 60) > 60000
         /\ call.ret = N(600)

\* the narrowest tablet and the smallest base width: 60% of 1024 is 614.4
C24_Witness ==
  /\ Called("getResponsiveMaxWidth")
  /\ window = [width |-> N(1024), height |-> N(1024)]
  /\ call.a1 = N(100)
  /\ call.ret = N(600)

=============================================================================
